---- MODULE Spec2Model ----
(***************************************************************************)
(* AuthService (src/services/auth.js): a facade over the firebase/auth     *)
(* client.  Each async method is modelled by one action for its invocation *)
(* (the synchronous prefix up to the first await) and one action for every *)
(* await that settles (the provider call's effect together with the code   *)
(* that runs until the next await or until the method's promise settles).  *)
(* Several invocations may be in flight on the one shared auth handle.     *)
(***************************************************************************)
EXTENDS Integers, Sequences, FiniteSets, TLC

\* ------------------------------------------------------------------ bounds
NumProcs == 2
MaxOps == 2

Procs == 1..NumProcs
Emails == {"a@shop.io", "b@shop.io"}
Passwords == {"pw1", "pw2"}
SocialArgs == {"google", "facebook", "", "null"}

\* ------------------------------------------------------------------ values
NoUser == [email |-> "none", verified |-> FALSE]
NoError == [kind |-> "none", code |-> "none"]
NoAccount == [exists |-> FALSE, password |-> "none", verified |-> FALSE]
NoArg == [email |-> "none", password |-> "none", provider |-> "none"]

ProviderError(code) == [kind |-> "ProviderError", code |-> code]
UnverifiedEmailError == [kind |-> "Error", code |-> "Email not verified"]
NotImplementedError == [kind |-> "NotImplementedError", code |-> "unimplemented"]

Pending == [type |-> "pending", user |-> NoUser, err |-> NoError]
Resolved(u) == [type |-> "ok", user |-> u, err |-> NoError]
Rejected(e) == [type |-> "err", user |-> NoUser, err |-> e]

Verification(u) == [kind |-> "verify", to |-> u.email]
PasswordReset(e) == [kind |-> "reset", to |-> e]

\* ------------------------------------------------------------------ state
VARIABLES accounts, currentUser, pc, op, arg, cred, result, log, sent, ops

vars == <<accounts, currentUser, pc, op, arg, cred, result, log, sent, ops>>

\* ------------------------------------------------- the identity provider
\* Every provider function yields the set of ways the call can settle:
\* whether it resolved, the error or user it settled with, the provider's
\* accounts and current user afterwards and the notifications it dispatched.
Settle(ok, err, u, acc, cur, out) ==
  [ok |-> ok, err |-> err, user |-> u, accounts |-> acc, currentUser |-> cur,
   sent |-> out]

NetworkFailure(acc, cur) ==
  Settle(FALSE, ProviderError("auth/network-request-failed"), NoUser, acc, cur, <<>>)

createUserWithEmailAndPassword(acc, cur, e, pw) ==
  {NetworkFailure(acc, cur)} \cup
  IF acc[e].exists
    THEN {Settle(FALSE, ProviderError("auth/email-already-in-use"), NoUser, acc, cur, <<>>)}
    ELSE LET u == [email |-> e, verified |-> FALSE]
         IN {Settle(TRUE, NoError, u,
                    [acc EXCEPT ![e] = [exists |-> TRUE, password |-> pw, verified |-> FALSE]],
                    u, <<>>)}

signInWithEmailAndPassword(acc, cur, e, pw) ==
  {NetworkFailure(acc, cur)} \cup
  IF acc[e].exists /\ acc[e].password = pw
    THEN LET u == [email |-> e, verified |-> acc[e].verified]
         IN {Settle(TRUE, NoError, u, acc, u, <<>>)}
    ELSE {Settle(FALSE, ProviderError("auth/invalid-credential"), NoUser, acc, cur, <<>>)}

signOut(acc, cur) ==
  {NetworkFailure(acc, cur), Settle(TRUE, NoError, NoUser, acc, NoUser, <<>>)}

sendEmailVerification(acc, cur, u) ==
  IF u = NoUser
    THEN {Settle(FALSE, ProviderError("auth/no-current-user"), NoUser, acc, cur, <<>>)}
    ELSE {NetworkFailure(acc, cur),
          Settle(TRUE, NoError, NoUser, acc, cur, <<Verification(u)>>)}

sendPasswordResetEmail(acc, cur, e) ==
  {NetworkFailure(acc, cur),
   Settle(TRUE, NoError, NoUser, acc, cur, <<PasswordReset(e)>>)}

UnimplementedError(provider) == Rejected(NotImplementedError)

\* -------------------------------------------------------------- the facade
Call(fn, r) == [fn |-> fn, ok |-> r.ok, err |-> r.err, user |-> r.user]

\* The synchronous prefix of an async method: up to its first await.
CanInvoke(p) == pc[p] \in {"idle", "done"} /\ ops < MaxOps

Invoke(p, name, a, u, next, res) ==
  /\ ops' = ops + 1
  /\ pc' = [pc EXCEPT ![p] = next]
  /\ op' = [op EXCEPT ![p] = name]
  /\ arg' = [arg EXCEPT ![p] = a]
  /\ cred' = [cred EXCEPT ![p] = u]
  /\ result' = [result EXCEPT ![p] = res]
  /\ log' = [log EXCEPT ![p] = <<>>]
  /\ sent' = [sent EXCEPT ![p] = <<>>]
  /\ UNCHANGED <<accounts, currentUser>>

\* An awaited provider call settles with r and the method goes on to k.
Await(p, fn, r, k) ==
  /\ accounts' = r.accounts
  /\ currentUser' = r.currentUser
  /\ log' = [log EXCEPT ![p] = Append(@, Call(fn, r))]
  /\ sent' = [sent EXCEPT ![p] = @ \o r.sent]
  /\ pc' = [pc EXCEPT ![p] = k.pc]
  /\ cred' = [cred EXCEPT ![p] = k.cred]
  /\ result' = [result EXCEPT ![p] = k.result]
  /\ UNCHANGED <<op, arg, ops>>

Continue(next, u) == [pc |-> next, cred |-> u, result |-> Pending]
Return(u, c) == [pc |-> "done", cred |-> c, result |-> Resolved(u)]
Throw(e, c) == [pc |-> "done", cred |-> c, result |-> Rejected(e)]

\* register ----------------------------------------------------------------
register(p, e, pw) ==
  /\ CanInvoke(p)
  /\ Invoke(p, "register", [NoArg EXCEPT !.email = e, !.password = pw], NoUser,
            "register_create", Pending)

register_afterCreate_ignoresFailure(r) == Continue("register_verify", r.user)

register_afterCreate_skipsVerify(r) ==
  IF r.ok THEN Return(r.user, r.user) ELSE Throw(r.err, NoUser)

register_afterCreate(r) ==
  IF r.ok THEN Continue("register_verify", r.user) ELSE Throw(r.err, NoUser)

register_created(p) ==
  /\ pc[p] = "register_create"
  /\ \E r \in createUserWithEmailAndPassword(accounts, currentUser,
                                            arg[p].email, arg[p].password) :
       Await(p, "createUserWithEmailAndPassword", r, register_afterCreate(r))

register_verifyTarget_current(userCredential, cur) == cur

register_verifyTarget(userCredential, cur) == userCredential

register_afterVerify(r, userCredential) ==
  IF r.ok THEN Return(userCredential, userCredential) ELSE Throw(r.err, userCredential)

register_verified(p) ==
  /\ pc[p] = "register_verify"
  /\ \E r \in sendEmailVerification(accounts, currentUser,
                                   register_verifyTarget(cred[p], currentUser)) :
       Await(p, "sendEmailVerification", r, register_afterVerify(r, cred[p]))

\* logout ------------------------------------------------------------------
logout(p) ==
  /\ CanInvoke(p)
  /\ Invoke(p, "logout", NoArg, NoUser, "logout_signOut", Pending)

logout_afterSignOut(r) ==
  IF r.ok THEN Return(NoUser, NoUser) ELSE Throw(r.err, NoUser)

logout_signedOut(p) ==
  /\ pc[p] = "logout_signOut"
  /\ \E r \in signOut(accounts, currentUser) :
       Await(p, "signOut", r, logout_afterSignOut(r))

\* login -------------------------------------------------------------------
login(p, e, pw) ==
  /\ CanInvoke(p)
  /\ Invoke(p, "login", [NoArg EXCEPT !.email = e, !.password = pw], NoUser,
            "login_signIn", Pending)

login_afterSignIn_unchecked(r) ==
  IF r.ok THEN Return(r.user, r.user) ELSE Throw(r.err, NoUser)

login_afterSignIn_alwaysLogout(r) ==
  IF r.ok /\ r.user.verified
    THEN Return(r.user, r.user)
    ELSE Continue("login_logout", r.user)

login_afterSignIn(r) ==
  IF r.ok
    THEN IF r.user.verified
           THEN Return(r.user, r.user)
           ELSE Continue("login_logout", r.user)
    ELSE Throw(r.err, NoUser)

login_signedIn(p) ==
  /\ pc[p] = "login_signIn"
  /\ \E r \in signInWithEmailAndPassword(accounts, currentUser,
                                        arg[p].email, arg[p].password) :
       Await(p, "signInWithEmailAndPassword", r, login_afterSignIn(r))

login_afterLogout_noThrow(r, userCredential) ==
  LET l == logout_afterSignOut(r)
  IN IF l.result.type = "ok"
       THEN Return(userCredential, userCredential)
       ELSE Throw(l.result.err, userCredential)

login_afterLogout_swallows(r, userCredential) ==
  Throw(UnverifiedEmailError, userCredential)

login_afterLogout(r, userCredential) ==
  LET l == logout_afterSignOut(r)
  IN IF l.result.type = "ok"
       THEN Throw(UnverifiedEmailError, userCredential)
       ELSE Throw(l.result.err, userCredential)

login_loggedOut(p) ==
  /\ pc[p] = "login_logout"
  /\ \E r \in signOut(accounts, currentUser) :
       Await(p, "signOut", r, login_afterLogout(r, cred[p]))

\* sendEmailVerification ---------------------------------------------------
sendEmailVerification_user(cur) == cur

sendVerification(p) ==
  /\ CanInvoke(p)
  /\ Invoke(p, "sendEmailVerification", NoArg, sendEmailVerification_user(currentUser),
            "verify_send", Pending)

sendVerification_after_swallows(r, user) == Return(NoUser, user)

sendVerification_after(r, user) ==
  IF r.ok THEN Return(NoUser, user) ELSE Throw(r.err, user)

sendVerification_sent(p) ==
  /\ pc[p] = "verify_send"
  /\ \E r \in sendEmailVerification(accounts, currentUser, cred[p]) :
       Await(p, "sendEmailVerification", r, sendVerification_after(r, cred[p]))

\* forgotPassword ----------------------------------------------------------
forgotPassword(p, e) ==
  /\ CanInvoke(p)
  /\ Invoke(p, "forgotPassword", [NoArg EXCEPT !.email = e], NoUser, "forgot_send", Pending)

forgotPassword_after_wraps(r) ==
  IF r.ok THEN Return(NoUser, NoUser)
          ELSE Throw(ProviderError("auth/password-reset-failed"), NoUser)

forgotPassword_after(r) ==
  IF r.ok THEN Return(NoUser, NoUser) ELSE Throw(r.err, NoUser)

forgotPassword_sent(p) ==
  /\ pc[p] = "forgot_send"
  /\ \E r \in sendPasswordResetEmail(accounts, currentUser, arg[p].email) :
       Await(p, "sendPasswordResetEmail", r, forgotPassword_after(r))

\* social sign-in placeholders ---------------------------------------------
signInWithGoogle_body_popup(provider) ==
  IF provider = "google" THEN Resolved(NoUser) ELSE UnimplementedError(provider)

signInWithGoogle_body(provider) == UnimplementedError(provider)

signInWithGoogle(p, provider) ==
  /\ CanInvoke(p)
  /\ Invoke(p, "signInWithGoogle", [NoArg EXCEPT !.provider = provider], NoUser,
            "done", signInWithGoogle_body(provider))

signInWithFacebook_body(provider) == UnimplementedError(provider)

signInWithFacebook(p, provider) ==
  /\ CanInvoke(p)
  /\ Invoke(p, "signInWithFacebook", [NoArg EXCEPT !.provider = provider], NoUser,
            "done", signInWithFacebook_body(provider))

\* ----------------------------------------------------------- specification
InitialAccounts ==
  {NoAccount,
   [exists |-> TRUE, password |-> "pw1", verified |-> FALSE],
   [exists |-> TRUE, password |-> "pw1", verified |-> TRUE]}

Init ==
  /\ accounts \in [Emails -> InitialAccounts]
  /\ currentUser = NoUser
  /\ pc = [p \in Procs |-> "idle"]
  /\ op = [p \in Procs |-> "none"]
  /\ arg = [p \in Procs |-> NoArg]
  /\ cred = [p \in Procs |-> NoUser]
  /\ result = [p \in Procs |-> Pending]
  /\ log = [p \in Procs |-> <<>>]
  /\ sent = [p \in Procs |-> <<>>]
  /\ ops = 0

Next ==
  \E p \in Procs :
    \/ \E e \in Emails, pw \in Passwords : register(p, e, pw)
    \/ register_created(p)
    \/ register_verified(p)
    \/ logout(p)
    \/ logout_signedOut(p)
    \/ \E e \in Emails, pw \in Passwords : login(p, e, pw)
    \/ login_signedIn(p)
    \/ login_loggedOut(p)
    \/ sendVerification(p)
    \/ sendVerification_sent(p)
    \/ \E e \in Emails : forgotPassword(p, e)
    \/ forgotPassword_sent(p)
    \/ \E a \in SocialArgs : signInWithGoogle(p, a)
    \/ \E a \in SocialArgs : signInWithFacebook(p, a)

Spec == Init /\ [][Next]_vars

\* ------------------------------------------------------------------ claims
Last(s) == s[Len(s)]
Moved(p) == pc'[p] # pc[p]
Settled(p) == pc[p] = "done"
SocialOps == {"signInWithGoogle", "signInWithFacebook"}
SingleCallOps == {"logout", "sendEmailVerification", "forgotPassword"}

\* C1 (as stated): a login whose sign-in returned an unverified user always
\* fails with UnverifiedEmailError and leaves no current user behind.
C1_Original ==
  [][\A p \in Procs :
       /\ (pc[p] = "login_signIn" /\ Moved(p) /\ Last(log'[p]).ok
             /\ ~Last(log'[p]).user.verified)
            => pc'[p] = "login_logout"
       /\ (pc[p] = "login_logout" /\ Moved(p))
            => /\ result'[p] = Rejected(UnverifiedEmailError)
               /\ currentUser' = NoUser]_vars

\* C1 (amended): a login whose sign-in returned an unverified user does not
\* return; it awaits logout.  When that signOut resolves, login fails with
\* UnverifiedEmailError and there is no current user when it completes; when
\* that signOut rejects, login fails with signOut's error and the current
\* user is left as it was.
C1_UnverifiedLoginLogsOut ==
  [][\A p \in Procs :
       /\ (pc[p] = "login_signIn" /\ Moved(p) /\ Last(log'[p]).ok
             /\ ~Last(log'[p]).user.verified)
            => /\ pc'[p] = "login_logout"
               /\ result'[p] = Pending
       /\ (pc[p] = "login_logout" /\ Moved(p))
            => /\ pc'[p] = "done"
               /\ Len(log'[p]) = 2
               /\ log'[p][2].fn = "signOut"
               /\ IF log'[p][2].ok
                    THEN /\ result'[p] = Rejected(UnverifiedEmailError)
                         /\ currentUser' = NoUser
                    ELSE /\ result'[p] = Rejected(log'[p][2].err)
                         /\ currentUser' = currentUser]_vars

C1_Witness ==
  \E p \in Procs :
    /\ Settled(p) /\ op[p] = "login" /\ Len(log[p]) = 2
    /\ log[p][1].ok /\ ~log[p][1].user.verified /\ log[p][2].ok
    /\ result[p] = Rejected(UnverifiedEmailError)
    /\ currentUser = NoUser

\* C2: login resolves exactly when signInWithEmailAndPassword resolved with a
\* verified user; it resolves with that user, that user is the current user
\* when login completes, login made no other provider call, and no login
\* ever resolves with an unverified user.
C2_LoginReturnsVerifiedUser ==
  [][\A p \in Procs :
       /\ (pc[p] = "login_signIn" /\ Moved(p))
            => LET c == log'[p][1]
               IN /\ (result'[p].type = "ok") <=> (c.ok /\ c.user.verified)
                  /\ result'[p].type = "ok"
                       => /\ pc'[p] = "done"
                          /\ result'[p].user = c.user
                          /\ currentUser' = c.user
       /\ (op'[p] = "login" /\ result'[p].type = "ok")
            => /\ result'[p].user.verified
               /\ Len(log'[p]) = 1
               /\ log'[p][1].fn = "signInWithEmailAndPassword"
               /\ log'[p][1].ok]_vars

C2_Witness ==
  \E p \in Procs :
    /\ Settled(p) /\ op[p] = "login" /\ result[p].type = "ok"
    /\ result[p].user.email = arg[p].email
    /\ currentUser = result[p].user

C4_RegisterDuplicateEmail ==
  [][\A p \in Procs :
       (pc[p] = "register_create" /\ Moved(p) /\ accounts[arg[p].email].exists)
         => /\ pc'[p] = "done"
            /\ Len(log'[p]) = 1
            /\ ~log'[p][1].ok
            /\ result'[p] = Rejected(log'[p][1].err)
            /\ result'[p].err.kind = "ProviderError"
            /\ sent'[p] = <<>>
            /\ accounts' = accounts]_vars

C4_Witness ==
  \E p \in Procs :
    /\ Settled(p) /\ op[p] = "register"
    /\ result[p] = Rejected(ProviderError("auth/email-already-in-use"))
    /\ sent[p] = <<>>

\* C5: when login is called with credentials the provider rejects, login
\* fails with the provider's error after that one call: no logout, and the
\* current user is the same after the call as before it.
C5_LoginRejectedCredentials ==
  [][\A p \in Procs :
       (/\ pc[p] = "login_signIn" /\ Moved(p)
        /\ ~(accounts[arg[p].email].exists
               /\ accounts[arg[p].email].password = arg[p].password))
         => /\ pc'[p] = "done"
            /\ Len(log'[p]) = 1
            /\ ~log'[p][1].ok
            /\ result'[p] = Rejected(log'[p][1].err)
            /\ result'[p].err.kind = "ProviderError"
            /\ currentUser' = currentUser]_vars

C5_Witness ==
  \E p \in Procs :
    /\ Settled(p) /\ op[p] = "login"
    /\ result[p] = Rejected(ProviderError("auth/invalid-credential"))
    /\ currentUser # NoUser

\* C6: signInWithGoogle and signInWithFacebook fail with NotImplementedError
\* for every argument, from every state, without any provider call.
C6_SocialSignInUnimplemented ==
  \A p \in Procs :
    op[p] \in SocialOps =>
      /\ Settled(p)
      /\ arg[p].provider \in SocialArgs
      /\ result[p] = Rejected(NotImplementedError)
      /\ log[p] = <<>>
      /\ sent[p] = <<>>

C6_Witness ==
  \E p \in Procs :
    /\ op[p] = "signInWithGoogle" /\ arg[p].provider = "null"
    /\ result[p].type = "err"
    /\ currentUser # NoUser

\* C7: a sendEmailVerification invoked while there is no current user hands
\* the provider no user, fails with the provider's error and dispatches no
\* verification.
C7_VerifyWithoutUser ==
  [][\A p \in Procs :
       /\ (pc[p] \in {"idle", "done"} /\ pc'[p] = "verify_send" /\ currentUser = NoUser)
            => cred'[p] = NoUser
       /\ (op'[p] = "sendEmailVerification" /\ cred'[p] = NoUser)
            => /\ sent'[p] = <<>>
               /\ pc'[p] = "done"
                    => /\ result'[p].type = "err"
                       /\ result'[p].err.kind = "ProviderError"
                       /\ result'[p].err = log'[p][1].err]_vars

C7_Witness ==
  \E p, q \in Procs :
    /\ Settled(p) /\ op[p] = "sendEmailVerification" /\ cred[p] = NoUser
    /\ result[p].type = "err" /\ sent[p] = <<>>
    /\ Settled(q) /\ op[q] = "logout" /\ result[q].type = "ok"

\* C8: a provider call that fails is the operation's last provider call, and
\* the operation fails with exactly that call's error; logout and
\* forgotPassword make one provider call and succeed exactly when it does;
\* register dispatches nothing after a failed account creation.
C8_ProviderErrorsPropagate ==
  \A p \in Procs :
    /\ \A i \in 1..Len(log[p]) :
         ~log[p][i].ok
           => /\ i = Len(log[p])
              /\ Settled(p)
              /\ result[p] = Rejected(log[p][i].err)
    /\ (Settled(p) /\ op[p] \in {"logout", "forgotPassword"})
         => /\ Len(log[p]) = 1
            /\ (result[p].type = "ok") <=> log[p][1].ok
    /\ (op[p] = "register" /\ log[p] # <<>> /\ ~log[p][1].ok) => sent[p] = <<>>

C8_Witness ==
  \E p \in Procs :
    /\ Settled(p) /\ op[p] = "forgotPassword" /\ ~log[p][1].ok
    /\ result[p] = Rejected(ProviderError("auth/network-request-failed"))

\* C9 (as stated): when the compensating logout of an unverified login fails,
\* login still fails with UnverifiedEmailError.
C9_Original ==
  \A p \in Procs :
    (Settled(p) /\ op[p] = "login" /\ Len(log[p]) = 2 /\ ~log[p][2].ok)
      => result[p] = Rejected(UnverifiedEmailError)

\* C9 (amended): when the compensating logout of an unverified login fails,
\* login fails with the logout's provider error, not with
\* UnverifiedEmailError.
C9_LogoutFailureSurfaces ==
  \A p \in Procs :
    (Settled(p) /\ op[p] = "login" /\ Len(log[p]) = 2 /\ ~log[p][2].ok)
      => /\ log[p][2].fn = "signOut"
         /\ result[p] = Rejected(log[p][2].err)
         /\ result[p].err.kind = "ProviderError"
         /\ result[p].err # UnverifiedEmailError

C9_Witness ==
  \E p \in Procs :
    /\ Settled(p) /\ op[p] = "login" /\ Len(log[p]) = 2
    /\ log[p][1].ok /\ ~log[p][1].user.verified /\ ~log[p][2].ok
    /\ currentUser = log[p][1].user

\* C10 (as stated): every operation makes one provider call and suspends
\* only on it.
C10_Original ==
  \A p \in Procs :
    /\ Len(log[p]) <= 1
    /\ pc[p] \notin {"register_verify", "login_logout"}

\* C10 (amended): logout, sendEmailVerification and forgotPassword make one
\* provider call, and so does a login whose sign-in fails or returns a
\* verified user; a register whose account creation resolved and a login
\* whose sign-in returned an unverified user make two and suspend on each,
\* the second issued only after the first resolved; no operation makes more.
C10_SuspendPoints ==
  \A p \in Procs :
    /\ Len(log[p]) <= 2
    /\ pc[p] \in {"register_verify", "login_logout"}
         => Len(log[p]) = 1 /\ log[p][1].ok
    /\ Settled(p) =>
         /\ op[p] \in SingleCallOps => Len(log[p]) = 1
         /\ op[p] \in SocialOps => Len(log[p]) = 0
         /\ op[p] = "register"
              => Len(log[p]) = (IF log[p][1].ok THEN 2 ELSE 1)
         /\ op[p] = "login"
              => Len(log[p]) = (IF log[p][1].ok /\ ~log[p][1].user.verified THEN 2 ELSE 1)

\* Another operation runs between login's two provider calls and sees the
\* session of the user login is about to reject.
C10_Witness ==
  \E p, q \in Procs :
    /\ pc[p] = "login_logout" /\ currentUser = cred[p]
    /\ Settled(q) /\ op[q] = "sendEmailVerification"
    /\ result[q].type = "ok"
    /\ sent[q] = <<Verification(cred[p])>>

====
